---- MODULE Spec2Model ----
(***************************************************************************)
(* Engine.IO server: packet / payload codec (engineio-parser), transport   *)
(* validators and the per-request engine (engineio-server).                *)
(*                                                                         *)
(* Text is modelled as a sequence of one-character strings, Option<T> as a *)
(* sequence of length 0 (None) or 1 (Some), Result<T, E> as a record with  *)
(* the field ok.                                                           *)
(***************************************************************************)
EXTENDS Integers, Sequences, FiniteSets, TLC

VARIABLES value, call, result, engine, log, responderCalls, sidResult

vars == <<value, call, result, engine, log, responderCalls, sidResult>>

codecVars == <<value, call, result>>

engineVars == <<engine, log, responderCalls, sidResult>>

\* ------------------------------------------------------------------------
\* Bounds
\* ------------------------------------------------------------------------

\* Largest number of separator-delimited segments of an input text.
MaxSegs == 3

\* Largest number of Engine::run calls in one behaviour.
MaxRuns == 3

\* ------------------------------------------------------------------------
\* Option and Result
\* ------------------------------------------------------------------------

None == <<>>

Some(x) == <<x>>

Ok(v) == [ok |-> TRUE, v |-> v]

Err(e) == [ok |-> FALSE, err |-> e]

\* ------------------------------------------------------------------------
\* engineio-parser
\* ------------------------------------------------------------------------

\* The one-character text 0x1E (ASCII record separator).
PACKET_SEPARATOR == "RS"

PACKET_PROBE == <<"p", "r", "o", "b", "e">>

PacketDataString(s) == [tag |-> "String", v |-> s]

PacketDataBinary(b) == [tag |-> "Binary", v |-> b]

Packet(t, d) == [packet_type |-> t, data |-> d]

\* The standard base64 alphabet; a symbol's value is its index minus one.
B64Alphabet ==
    << "A", "B", "C", "D", "E", "F", "G", "H", "I", "J", "K", "L", "M",
       "N", "O", "P", "Q", "R", "S", "T", "U", "V", "W", "X", "Y", "Z",
       "a", "b", "c", "d", "e", "f", "g", "h", "i", "j", "k", "l", "m",
       "n", "o", "p", "q", "r", "s", "t", "u", "v", "w", "x", "y", "z",
       "0", "1", "2", "3", "4", "5", "6", "7", "8", "9", "+", "/" >>

IsB64Symbol(c) == \E i \in 1..Len(B64Alphabet) : B64Alphabet[i] = c

B64Value(c) == (CHOOSE i \in 1..Len(B64Alphabet) : B64Alphabet[i] = c) - 1

RECURSIVE B64Quanta(_)
\* Bytes of an unpadded symbol sequence; <<-1>> marks non-zero trailing bits.
B64Quanta(s) ==
    IF Len(s) = 0 THEN <<>>
    ELSE IF Len(s) >= 4 THEN
        LET n == ((B64Value(s[1]) * 64 + B64Value(s[2])) * 64 + B64Value(s[3])) * 64
                 + B64Value(s[4])
        IN  << n \div 65536, (n \div 256) % 256, n % 256 >>
            \o B64Quanta(SubSeq(s, 5, Len(s)))
    ELSE IF Len(s) = 3 THEN
        LET n == (B64Value(s[1]) * 64 + B64Value(s[2])) * 64 + B64Value(s[3])
        IN  IF n % 4 # 0 THEN << -1 >> ELSE << n \div 1024, (n \div 4) % 256 >>
    ELSE
        LET n == B64Value(s[1]) * 64 + B64Value(s[2])
        IN  IF n % 16 # 0 THEN << -1 >> ELSE << n \div 16 >>

\* base64::decode with the standard alphabet.  Padding characters are
\* outside the modelled alphabet: no input drawn here carries them.
Base64Decode(s) ==
    IF \E i \in 1..Len(s) : ~IsB64Symbol(s[i]) THEN Err("InvalidByte")
    ELSE IF Len(s) % 4 = 1 THEN Err("InvalidLength")
    ELSE LET b == B64Quanta(s)
         IN  IF \E i \in 1..Len(b) : b[i] = -1 THEN Err("InvalidLastSymbol")
             ELSE Ok(b)

\* The '2' and '3' arms of Packet::try_from: msg is the text after the type
\* character.
PingPongMutant(msg, packet_type, err) ==
    IF Len(msg) > 0 /\ msg = PACKET_PROBE
    THEN Err(err)
    ELSE Ok(Packet(packet_type, Some(PacketDataString(msg))))

PingPongTryFrom(msg, packet_type, err) ==
    IF Len(msg) > 0 /\ msg # PACKET_PROBE
    THEN Err(err)
    ELSE Ok(Packet(packet_type, Some(PacketDataString(msg))))

PacketTryFrom(v) ==
    IF Len(v) < 1 THEN Err("EmptyString")
    ELSE LET ch == Head(v)
             chars == Tail(v)
         IN  CASE ch = "0" -> Ok(Packet("Open", None))
               [] ch = "1" -> Ok(Packet("Close", None))
               [] ch = "2" -> PingPongTryFrom(chars, "Ping", "InvalidPing")
               [] ch = "3" -> PingPongTryFrom(chars, "Pong", "InvalidPong")
               [] ch = "4" -> Ok(Packet("Message", Some(PacketDataString(chars))))
               [] ch = "b" ->
                    LET d == Base64Decode(chars)
                    IN  IF d.ok
                        THEN Ok(Packet("Message", Some(PacketDataBinary(d.v))))
                        ELSE Err("InvalidBinaryMessage")
               [] ch = "5" -> Ok(Packet("Upgrade", None))
               [] ch = "6" -> Ok(Packet("Noop", None))
               [] OTHER -> Err("InvalidChar")

RECURSIVE SplitMutant(_)
\* str::split with the empty segments dropped.
SplitMutant(v) ==
    IF \A i \in 1..Len(v) : v[i] # PACKET_SEPARATOR
    THEN IF Len(v) = 0 THEN <<>> ELSE << v >>
    ELSE LET i == CHOOSE k \in 1..Len(v) :
                      /\ v[k] = PACKET_SEPARATOR
                      /\ \A j \in 1..(k - 1) : v[j] # PACKET_SEPARATOR
         IN  (IF i = 1 THEN <<>> ELSE << SubSeq(v, 1, i - 1) >>)
             \o SplitMutant(SubSeq(v, i + 1, Len(v)))

RECURSIVE Split(_)
\* value.split(PACKET_SEPARATOR): every separator ends a segment, so k
\* separators give k + 1 segments, empty ones included.
Split(v) ==
    IF \A i \in 1..Len(v) : v[i] # PACKET_SEPARATOR
    THEN << v >>
    ELSE LET i == CHOOSE k \in 1..Len(v) :
                      /\ v[k] = PACKET_SEPARATOR
                      /\ \A j \in 1..(k - 1) : v[j] # PACKET_SEPARATOR
         IN  << SubSeq(v, 1, i - 1) >> \o Split(SubSeq(v, i + 1, Len(v)))

RECURSIVE PushPacketsMutant(_, _)
\* The loop of Payload::try_from inserting at the front instead of pushing.
PushPacketsMutant(segs, packets) ==
    IF Len(segs) = 0 THEN Ok([packets |-> packets])
    ELSE LET p == PacketTryFrom(Head(segs))
         IN  IF ~p.ok THEN Err(p.err)
             ELSE PushPacketsMutant(Tail(segs), << p.v >> \o packets)

RECURSIVE PushPackets(_, _)
\* The loop of Payload::try_from: push each decoded segment, `?` returns the
\* first error and drops the payload built so far.
PushPackets(segs, packets) ==
    IF Len(segs) = 0 THEN Ok([packets |-> packets])
    ELSE LET p == PacketTryFrom(Head(segs))
         IN  IF ~p.ok THEN Err(p.err)
             ELSE PushPackets(Tail(segs), Append(packets, p.v))

PayloadTryFrom(v) == PushPackets(Split(v), <<>>)

PayloadLen(payload) == Len(payload.packets)

\* ------------------------------------------------------------------------
\* engineio-server: transport validators
\* ------------------------------------------------------------------------

\* Accessors the Polling validator calls on Payload and Packet.
packets(payload) == payload.packets

get_packet_type(p) == p.packet_type

get_packet_data(p) == p.data

PacketParsingErr(e) == [kind |-> "PacketParsingErr", inner |-> e, count |-> 0]

InvalidPayloadForWebsocket(n) ==
    [kind |-> "InvalidPayloadForWebsocket", inner |-> "", count |-> n]

InvalidPongPacket == [kind |-> "InvalidPongPacket", inner |-> "", count |-> 0]

InvalidPingPacket == [kind |-> "InvalidPingPacket", inner |-> "", count |-> 0]

WebsocketParsePayloadMutant(payload_msg) ==
    LET r == PayloadTryFrom(payload_msg)
    IN  IF r.ok
        THEN IF PayloadLen(r.v) > 2
             THEN Err(InvalidPayloadForWebsocket(PayloadLen(r.v)))
             ELSE Ok(r.v)
        ELSE Err(PacketParsingErr(r.err))

WebsocketParsePayload(payload_msg) ==
    LET r == PayloadTryFrom(payload_msg)
    IN  IF r.ok
        THEN IF PayloadLen(r.v) > 1
             THEN Err(InvalidPayloadForWebsocket(PayloadLen(r.v)))
             ELSE Ok(r.v)
        ELSE Err(PacketParsingErr(r.err))

RECURSIVE PollingScan(_, _)
\* The for loop of PollingTransport::parse_payload over the packets from
\* index i on; falls through to Ok(payload).
PollingScan(payload, i) ==
    IF i > Len(packets(payload)) THEN Ok(payload)
    ELSE LET p == packets(payload)[i]
         IN  IF get_packet_type(p) = "Pong" /\ get_packet_data(p) # None
             THEN Err(InvalidPongPacket)
             ELSE IF get_packet_type(p) = "Ping" /\ get_packet_data(p) # None
             THEN Err(InvalidPingPacket)
             ELSE PollingScan(payload, i + 1)

PollingParsePayload(payload_msg) ==
    LET r == PayloadTryFrom(payload_msg)
    IN  IF r.ok
        THEN PollingScan(r.v, 1)
        ELSE Err(PacketParsingErr(r.err))

\* ------------------------------------------------------------------------
\* engineio-server: engine
\* ------------------------------------------------------------------------

TransportType == {"Websocket", "Polling"}

\* No Engine value constructed yet.
NoEngine == [transport |-> "none", sid |-> None]

EngineNew(transport) == [transport |-> transport, sid |-> None]

EngineWithSid(transport, sid) == [transport |-> transport, sid |-> Some(sid)]

SidNew(sid) == IF Len(sid) # 0 THEN Ok(sid) ELSE Err("BlankSID")

\* Engine::run with the Websocket / None arm calling the responder.
EngineRunMutant(e) ==
    CASE e.transport = "Websocket" /\ e.sid = None ->
            [result |-> Ok("unit"), responder |-> TRUE, sent |-> <<>>]
      [] e.transport = "Websocket" /\ e.sid # None ->
            [result |-> Ok("unit"), responder |-> TRUE, sent |-> <<>>]
      [] e.transport = "Polling" /\ e.sid = None ->
            [result |-> Ok("unit"), responder |-> FALSE, sent |-> <<>>]
      [] e.transport = "Polling" /\ e.sid # None ->
            [result |-> Ok("unit"), responder |-> FALSE, sent |-> <<>>]

\* The match of Engine::run on (transport, sid): the value returned, whether
\* the responder is invoked, and the frames written to the socket.  No arm
\* reads the socket or writes to it; self is borrowed immutably.
EngineRun(e) ==
    CASE e.transport = "Websocket" /\ e.sid = None ->
            [result |-> Err("MissingSIDWebsocket"), responder |-> FALSE, sent |-> <<>>]
      [] e.transport = "Websocket" /\ e.sid # None ->
            [result |-> Ok("unit"), responder |-> TRUE, sent |-> <<>>]
      [] e.transport = "Polling" /\ e.sid = None ->
            [result |-> Ok("unit"), responder |-> FALSE, sent |-> <<>>]
      [] e.transport = "Polling" /\ e.sid # None ->
            [result |-> Ok("unit"), responder |-> FALSE, sent |-> <<>>]

\* ------------------------------------------------------------------------
\* Inputs
\* ------------------------------------------------------------------------

\* Separator-free texts the input texts are joined from.
Segments ==
    { <<>>,
      <<"0">>, <<"5">>,
      <<"2">>, <<"2">> \o PACKET_PROBE, <<"2", "p", "r", "o", "b">>,
      <<"3">>, <<"3">> \o PACKET_PROBE, <<"3", "x">>,
      <<"4", "h">>,
      <<"b", "A", "Q", "I", "D">>, <<"b", "!">>,
      <<"x">> }

RECURSIVE Join(_)
Join(segs) ==
    IF Len(segs) = 1 THEN segs[1]
    ELSE segs[1] \o << PACKET_SEPARATOR >> \o Join(Tail(segs))

Inputs == UNION { { Join(segs) : segs \in [1..n -> Segments] } : n \in 1..MaxSegs }

\* Strings handed to Sid::new and Engine::with_sid.
SidStrings == { <<>>, <<"a">> }

\* Texts pending on the socket handed to Engine::run.
Frames == { <<"2">> \o PACKET_PROBE, <<"5">> }

\* ------------------------------------------------------------------------
\* Specifications
\* ------------------------------------------------------------------------

NotCalled == Err("NotCalled")

InitEngineVars ==
    /\ engine = NoEngine
    /\ log = <<>>
    /\ responderCalls = 0
    /\ sidResult = [sid |-> <<>>, res |-> NotCalled]

InitCodecVars ==
    /\ call = "none"
    /\ result = NotCalled

\* The codec and the validators are pure: an input text is drawn and the
\* functions are applied to it.
InitCodec ==
    /\ value \in Inputs
    /\ InitCodecVars
    /\ InitEngineVars

CallPacketTryFrom ==
    /\ call' = "Packet::try_from"
    /\ result' = PacketTryFrom(value)
    /\ UNCHANGED <<value, engineVars>>

CallPayloadTryFrom ==
    /\ call' = "Payload::try_from"
    /\ result' = PayloadTryFrom(value)
    /\ UNCHANGED <<value, engineVars>>

CallWebsocketParsePayload ==
    /\ call' = "WebsocketTransport::parse_payload"
    /\ result' = WebsocketParsePayload(value)
    /\ UNCHANGED <<value, engineVars>>

CallPollingParsePayload ==
    /\ call' = "PollingTransport::parse_payload"
    /\ result' = PollingParsePayload(value)
    /\ UNCHANGED <<value, engineVars>>

NextCodec ==
    \/ CallPacketTryFrom
    \/ CallPayloadTryFrom
    \/ CallWebsocketParsePayload
    \/ CallPollingParsePayload

SpecCodec == InitCodec /\ [][NextCodec]_vars

InitEngine ==
    /\ value = <<>>
    /\ InitCodecVars
    /\ InitEngineVars

CallSidNew ==
    /\ \E s \in SidStrings : sidResult' = [sid |-> s, res |-> SidNew(s)]
    /\ UNCHANGED <<codecVars, engine, log, responderCalls>>

CallEngineNew ==
    /\ \E t \in TransportType : engine' = EngineNew(t)
    /\ UNCHANGED <<codecVars, log, responderCalls, sidResult>>

CallEngineWithSid ==
    /\ \E t \in TransportType, s \in SidStrings : engine' = EngineWithSid(t, s)
    /\ UNCHANGED <<codecVars, log, responderCalls, sidResult>>

\* One call of Engine::run on the current engine; frame is the text pending
\* on the socket it is given.
CallRun ==
    /\ engine # NoEngine
    /\ Len(log) < MaxRuns
    /\ \E frame \in Frames :
          LET r == EngineRun(engine)
          IN  /\ log' = Append(log, [transport |-> engine.transport,
                                      sid |-> engine.sid,
                                      frame |-> frame,
                                      result |-> r.result,
                                      responder |-> r.responder,
                                      sent |-> r.sent])
              /\ responderCalls' = responderCalls + (IF r.responder THEN 1 ELSE 0)
    /\ UNCHANGED <<codecVars, engine, sidResult>>

NextEngine ==
    \/ CallSidNew
    \/ CallEngineNew
    \/ CallEngineWithSid
    \/ CallRun

SpecEngine == InitEngine /\ [][NextEngine]_vars

\* ------------------------------------------------------------------------
\* Wire-level reading of an input text, used to state the properties
\* ------------------------------------------------------------------------

SepPositions(v) == { i \in 1..Len(v) : v[i] = PACKET_SEPARATOR }

NumSeparators(v) == Cardinality(SepPositions(v))

Boundaries(v) == {0} \cup SepPositions(v) \cup {Len(v) + 1}

NthBoundary(v, j) ==
    CHOOSE x \in Boundaries(v) : Cardinality({ y \in Boundaries(v) : y < x }) = j - 1

\* The j-th segment in wire order: the text between the (j-1)-th and the
\* j-th separator.
Segment(v, j) == SubSeq(v, NthBoundary(v, j) + 1, NthBoundary(v, j + 1) - 1)

SegmentIndexes(v) == 1..(NumSeparators(v) + 1)

FailingSegments(v) == { j \in SegmentIndexes(v) : ~PacketTryFrom(Segment(v, j)).ok }

AllSegmentsDecode(v) == FailingSegments(v) = {}

Min(S) == CHOOSE x \in S : \A y \in S : x <= y

BarePing == <<"2">>

ProbePing == <<"2">> \o PACKET_PROBE

BarePong == <<"3">>

ProbePong == <<"3">> \o PACKET_PROBE

\* ------------------------------------------------------------------------
\* Properties
\* ------------------------------------------------------------------------

\* C1: Payload decode fails atomically.  If some segment of the text fails
\* Packet decode, Payload decode returns exactly the error of the first
\* failing segment in wire order and no payload; a text with an empty
\* segment never decodes, and yields EmptyString when the empty segment is
\* the first failing one (the empty text included).
C1_PayloadDecodeAtomic ==
    call = "Payload::try_from" =>
        /\ FailingSegments(value) # {} =>
              LET f == Min(FailingSegments(value))
              IN  /\ result = Err(PacketTryFrom(Segment(value, f)).err)
                  /\ Segment(value, f) = <<>> => result = Err("EmptyString")
        /\ (\E j \in SegmentIndexes(value) : Segment(value, j) = <<>>) => ~result.ok
        /\ value = <<>> => result = Err("EmptyString")

\* C1 witness: "4h" SEP SEP "bAQID" was decoded; the first segment decodes,
\* the second is empty, and the decode returned EmptyString.
C1_Witness ==
    /\ call = "Payload::try_from"
    /\ value = <<"4", "h", PACKET_SEPARATOR, PACKET_SEPARATOR, "b", "A", "Q", "I", "D">>
    /\ result = Err("EmptyString")

\* C2: Payload decode preserves wire order and count.  For a text with k
\* separators whose segments all decode, the decode succeeds with exactly
\* k + 1 packets, the i-th being the Packet decode of the i-th segment; a
\* decoded payload is never empty.
C2_PayloadOrderAndCount ==
    (call = "Payload::try_from" /\ AllSegmentsDecode(value)) =>
        /\ result.ok
        /\ Len(result.v.packets) = NumSeparators(value) + 1
        /\ Len(result.v.packets) >= 1
        /\ \A i \in SegmentIndexes(value) :
              result.v.packets[i] = PacketTryFrom(Segment(value, i)).v

\* C2 witness: "4h" SEP "5" SEP "3" decoded to three packets in wire order.
C2_Witness ==
    /\ call = "Payload::try_from"
    /\ value = <<"4", "h", PACKET_SEPARATOR, "5", PACKET_SEPARATOR, "3">>
    /\ result.ok
    /\ Len(result.v.packets) = 3
    /\ result.v.packets[1] = Packet("Message", Some(PacketDataString(<<"h">>)))
    /\ result.v.packets[2] = Packet("Upgrade", None)
    /\ result.v.packets[3].packet_type = "Pong"

C4_WebsocketSinglePacket ==
    /\ (call = "WebsocketTransport::parse_payload" /\ AllSegmentsDecode(value)) =>
          LET n == NumSeparators(value) + 1
          IN  /\ n > 1 => result = Err(InvalidPayloadForWebsocket(n))
              /\ n = 1 => result = Ok([packets |-> << PacketTryFrom(value).v >>])
    /\ (/\ call = "PollingTransport::parse_payload"
        /\ \A j \in SegmentIndexes(value) :
              Len(Segment(value, j)) >= 1 /\ Head(Segment(value, j)) = "4") =>
          /\ result.ok
          /\ Len(result.v.packets) = NumSeparators(value) + 1
          /\ \A i \in SegmentIndexes(value) :
                result.v.packets[i] = Packet("Message",
                    Some(PacketDataString(Tail(Segment(value, i)))))

\* C4 witness: the two-message payload "4h" SEP "4h" was rejected by the
\* Websocket validator with the count 2.
C4_Witness ==
    /\ call = "WebsocketTransport::parse_payload"
    /\ value = <<"4", "h", PACKET_SEPARATOR, "4", "h">>
    /\ result = Err(InvalidPayloadForWebsocket(2))

\* C5 (as claimed): a decodable payload holding a Ping ("2" or "2probe") is
\* never accepted by the Polling validator, and the error is
\* InvalidPingPacket when no Pong carrying data ("3probe") precedes that
\* Ping in wire order.
C5_PollingRejectsPing ==
    (call = "PollingTransport::parse_payload" /\ AllSegmentsDecode(value)) =>
        \A i \in SegmentIndexes(value) :
            Segment(value, i) \in {BarePing, ProbePing} =>
                /\ ~result.ok
                /\ (\A j \in 1..(i - 1) : Segment(value, j) # ProbePong) =>
                      result = Err(InvalidPingPacket)

\* C6 (as claimed): on the Polling validator a payload made of bare Pongs
\* ("3") and non-Ping, non-Pong packets is returned as a success, and the
\* Pong carrying "probe" is rejected with InvalidPongPacket.
C6_PollingBarePongAccepted ==
    (call = "PollingTransport::parse_payload" /\ AllSegmentsDecode(value)) =>
        /\ (\A i \in SegmentIndexes(value) :
               \/ Segment(value, i) = BarePong
               \/ Head(Segment(value, i)) \notin {"2", "3"})
           => result = PayloadTryFrom(value)
        /\ value = ProbePong => result = Err(InvalidPongPacket)

C8_PollingMintsSid ==
    [][ (/\ Len(log') = Len(log) + 1
         /\ engine = EngineNew("Polling")
         /\ log'[Len(log')].result.ok) =>
            /\ engine'.sid # None
            /\ engine'.sid[1] # <<>>
            /\ log'[Len(log')].sent # <<>> ]_vars

\* Session states of the upgrade handshake, read off the history of run
\* calls: the engine itself keeps no session table.
PollingActive(S, i) ==
    \E j \in 1..(i - 1) :
        log[j].transport = "Polling" /\ log[j].sid = Some(S) /\ log[j].result.ok

ProbeAt(S, i) ==
    /\ i \in 1..Len(log)
    /\ PollingActive(S, i)
    /\ log[i].transport = "Websocket"
    /\ log[i].sid = Some(S)
    /\ log[i].frame = ProbePing

UpgradedAt(S, i) ==
    /\ i \in 1..Len(log)
    /\ log[i].transport = "Websocket"
    /\ log[i].sid = Some(S)
    /\ log[i].frame = <<"5">>
    /\ \E j \in 1..(i - 1) : ProbeAt(S, j)

\* C9 (as claimed): a probe Ping on the Websocket transport for a
\* PollingActive session S is answered with the probe Pong, and once the
\* Upgrade packet has followed it every further Polling request for S is
\* rejected.
C9_UpgradeHandshake ==
    \A S \in SidStrings \ { <<>> }, i \in 1..Len(log) :
        /\ ProbeAt(S, i) => log[i].sent = << ProbePong >>
        /\ UpgradedAt(S, i) =>
              \A k \in (i + 1)..Len(log) :
                  (log[k].transport = "Polling" /\ log[k].sid = Some(S))
                      => ~log[k].result.ok

\* C10 (as claimed): Sid::new returns BlankSID for the empty string and
\* succeeds for every other string, and the sid of an engine built by
\* Engine::new or Engine::with_sid is absent or non-empty.
C10_NoBlankSid ==
    /\ sidResult.res # NotCalled =>
          /\ sidResult.sid = <<>> => sidResult.res = Err("BlankSID")
          /\ sidResult.sid # <<>> => sidResult.res = Ok(sidResult.sid)
    /\ engine.sid = None \/ engine.sid[1] # <<>>

====
